---- MODULE Spec2Model ----
(***************************************************************************)
(* FitnessTracker (src/main.py): a SQLite table fitness_log with one row   *)
(* per date, written by add_entry (INSERT OR REPLACE) and read by three    *)
(* queries, plus the interactive menu that drives it.                      *)
(*                                                                         *)
(* Text is modelled as sequences of character codes, so that the TEXT      *)
(* comparison SQLite applies to the date column is the comparison the      *)
(* model applies.  Numbers are integers (one unit = one tenth).            *)
(***************************************************************************)
EXTENDS Integers, Sequences, FiniteSets, TLC

VARIABLES table, now, ret, leaked, hist

vars == <<table, now, ret, leaked, hist>>

\* ------------------------------------------------------------------ bounds
MaxTick == 1
MaxLimit == 2
MaxDays == 1

\* ------------------------------------------------------- optional values
\* Python None / SQL NULL is the empty sequence, a present value v is <<v>>.
None == <<>>
Some(v) == <<v>>

\* --------------------------------------------------------------- text
Hyphen == 45
Digit(n) == 48 + n
IsDigit(c) == c >= 48 /\ c <= 57
Two(n) == <<Digit(n \div 10), Digit(n % 10)>>
Year2024 == <<Digit(2), Digit(0), Digit(2), Digit(4)>>

\* memcmp order of two texts (SQLite BINARY collation): a < b
RECURSIVE StrLess(_, _)
StrLess(a, b) ==
    IF b = <<>> THEN FALSE
    ELSE IF a = <<>> THEN TRUE
    ELSE IF Head(a) # Head(b) THEN Head(a) < Head(b)
    ELSE StrLess(Tail(a), Tail(b))

StrGeq(a, b) == ~StrLess(a, b)

\* ------------------------------------------------------------ calendar
\* Days are numbered within the year 2024 (1 = 1 January, 366 = 31 December).
MonthLen(m) == IF m = 2 THEN 29 ELSE IF m \in {4, 6, 9, 11} THEN 30 ELSE 31

RECURSIVE DaysBefore(_)
DaysBefore(m) == IF m = 1 THEN 0 ELSE DaysBefore(m - 1) + MonthLen(m - 1)

DayOfYear(m, d) == DaysBefore(m) + d

MonthOf(doy) == CHOOSE m \in 1..12 : DaysBefore(m) < doy /\ doy <= DaysBefore(m) + MonthLen(m)

\* strftime('%Y-%m-%d') and SQLite date(): the zero-padded text of a day
Fmt(doy) == Year2024 \o <<Hyphen>> \o Two(MonthOf(doy)) \o <<Hyphen>> \o Two(doy - DaysBefore(MonthOf(doy)))

\* the text a user may type with month and day not padded
FmtShort(doy) ==
    LET m == MonthOf(doy)
        d == doy - DaysBefore(m)
        num(n) == IF n < 10 THEN <<Digit(n)>> ELSE Two(n)
    IN  Year2024 \o <<Hyphen>> \o num(m) \o <<Hyphen>> \o num(d)

\* date('now', '-N days')
\* (for a negative N the modifier reads '--N days', which SQLite rejects: NULL)
SqlDate(today, days) == IF days < 0 THEN None ELSE Some(Fmt(today - days))

FirstDay == DayOfYear(10, 1)
Today == now

\* ------------------------------------------------------------- the table
\* fitness_log, in rowid order.  BOOLEAN is stored as 0 / 1.
BoolToSql(b) == IF b THEN 1 ELSE 0

Row(date, weight, ran, distance, duration, notes, at) ==
    [date |-> date, weight |-> weight, ran |-> BoolToSql(ran), distance |-> distance,
     duration |-> duration, notes |-> notes, created_at |-> at]

RowsOf(t) == {t[i] : i \in 1..Len(t)}
DatesOf(t) == {t[i].date : i \in 1..Len(t)}
RowsFor(t, d) == {i \in 1..Len(t) : t[i].date = d}

KeepOthers(t, d) == SelectSeq(t, LAMBDA r : r.date # d)

\* an upsert that keeps the old value of a column the new call left out
MergeInsert(t, row) ==
    LET old == SelectSeq(t, LAMBDA r : r.date = row.date)
        pick(new, prev) == IF new = None THEN prev ELSE new
        merged == IF old = <<>> THEN row
                  ELSE [row EXCEPT !.distance = pick(row.distance, old[1].distance),
                                   !.duration = pick(row.duration, old[1].duration),
                                   !.notes = pick(row.notes, old[1].notes)]
    IN  KeepOthers(t, row.date) \o <<merged>>

\* an upsert that updates the conflicting row where it is (ON CONFLICT DO UPDATE)
UpdateInPlace(t, row) ==
    IF \E i \in 1..Len(t) : t[i].date = row.date
    THEN [i \in 1..Len(t) |->
            IF t[i].date = row.date THEN [row EXCEPT !.created_at = t[i].created_at] ELSE t[i]]
    ELSE t \o <<row>>

\* INSERT OR REPLACE: the row that conflicts on the UNIQUE date is deleted, then
\* the new row is inserted with a fresh rowid and the column defaults.
InsertOrReplace(t, row) == KeepOthers(t, row.date) \o <<row>>

\* ------------------------------------------------------------ SQL pieces
\* ORDER BY date ASC (text order)
RECURSIVE InsertByDate(_, _)
InsertByDate(sorted, r) ==
    IF sorted = <<>> THEN <<r>>
    ELSE IF StrLess(r.date, Head(sorted).date) THEN <<r>> \o sorted
    ELSE <<Head(sorted)>> \o InsertByDate(Tail(sorted), r)

RECURSIVE OrderByDateAsc(_)
OrderByDateAsc(t) ==
    IF t = <<>> THEN <<>> ELSE InsertByDate(OrderByDateAsc(Tail(t)), Head(t))

Reverse(s) == [i \in 1..Len(s) |-> s[Len(s) + 1 - i]]

\* ORDER BY date DESC
OrderByDateDesc(t) == Reverse(OrderByDateAsc(t))

\* LIMIT n (a negative n is no limit)
Limit(s, n) == IF n < 0 \/ n >= Len(s) THEN s ELSE SubSeq(s, 1, n)

\* WHERE date >= date('now', '-N days') (no row compares with NULL)
InWindow(t, today, days) ==
    LET cutoff == SqlDate(today, days)
    IN  IF cutoff = None THEN <<>> ELSE SelectSeq(t, LAMBDA r : StrGeq(r.date, cutoff[1]))

\* SUM(x): NULL when no row has a value
RECURSIVE Total(_)
Total(vals) == IF vals = <<>> THEN 0 ELSE (IF Head(vals) = None THEN 0 ELSE Head(vals)[1]) + Total(Tail(vals))

Present(vals) == SelectSeq(vals, LAMBDA v : v # None)

SqlSum(vals) == IF Present(vals) = <<>> THEN None ELSE Some(Total(vals))

\* an average that counts the rows without a value
AvgCountingNull(vals) ==
    IF Present(vals) = <<>> THEN None
    ELSE Some([num |-> Total(vals), den |-> Len(vals)])

\* AVG(x): the sum over the count of the rows that have a value, as a fraction
SqlAvg(vals) ==
    IF Present(vals) = <<>> THEN None
    ELSE Some([num |-> Total(vals), den |-> Len(Present(vals))])

\* Python `x or 0`
OrZero(x) == IF x = None THEN 0 ELSE x[1]
Zero == [num |-> 0, den |-> 1]
OrZeroAvg(x) == IF x = None THEN Zero ELSE IF x[1].num = 0 THEN Zero ELSE x[1]

\* the column without the CASE
AnyRow(r, v) == v

\* CASE WHEN ran = 1 THEN v END
WhenRan(r, v) == IF r.ran = 1 THEN v ELSE None

\* ------------------------------------------------------------- the reads
\* SELECT date, weight, ran, distance, duration, notes
EntryColumns(s) ==
    [i \in 1..Len(s) |-> <<s[i].date, s[i].weight, s[i].ran, s[i].distance, s[i].duration, s[i].notes>>]

\* SELECT date, weight
WeightColumns(s) == [i \in 1..Len(s) |-> <<s[i].date, s[i].weight>>]

\* the query without its ORDER BY: newest rowid first
recent_by_rowid(t, limit) == EntryColumns(Limit(Reverse(t), limit))

get_recent_entries(t, limit) == EntryColumns(Limit(OrderByDateDesc(t), limit))

get_weight_progress(t, today, days) == WeightColumns(OrderByDateAsc(InWindow(t, today, days)))

\* CASE WHEN ran = 1 THEN 1 ELSE 0 END, ... THEN distance END, ... THEN duration END
RunFlags(w) == [i \in 1..Len(w) |-> Some(IF w[i].ran = 1 THEN 1 ELSE 0)]
RunDistances(w) == [i \in 1..Len(w) |-> WhenRan(w[i], w[i].distance)]
RunDurations(w) == [i \in 1..Len(w) |-> WhenRan(w[i], w[i].duration)]

get_running_stats(t, today, days) ==
    LET w == InWindow(t, today, days)
    IN  [total_days |-> Len(w),
         run_days |-> OrZero(SqlSum(RunFlags(w))),
         avg_distance |-> OrZeroAvg(SqlAvg(RunDistances(w))),
         total_distance |-> OrZero(SqlSum(RunDistances(w))),
         avg_duration |-> OrZeroAvg(SqlAvg(RunDurations(w)))]

\* ------------------------------------------------------------ operations
\* How a call meets the storage: it works, sqlite3.connect fails (no connection
\* exists), or a statement or the commit fails on the open connection.
Outcomes == {"ok", "connect_error", "execute_error"}

Returned(op, arg, val) == [op |-> op, arg |-> arg, status |-> "returned", val |-> val]
Raised(op, arg) == [op |-> op, arg |-> arg, status |-> "raised", val |-> <<>>]

\* conn.close() is the last statement of the success path only: a connection
\* whose statement failed stays open until the interpreter finalizes the object
\* (a later call may meet the lock it still holds: one of the storage failures).
CloseOnlyOnSuccess(o) == leaked' = (leaked \/ o = "execute_error")

Init ==
    /\ table = <<>>
    /\ now = FirstDay
    /\ ret = Returned("init_database", 0, <<>>)
    /\ leaked = FALSE
    /\ hist = <<>>

\* an initialization that drops and recreates the table
init_recreates(o) ==
    /\ CloseOnlyOnSuccess(o)
    /\ ret' = IF o = "ok" THEN Returned("init_database", 0, <<>>) ELSE Raised("init_database", 0)
    /\ table' = IF o = "ok" THEN <<>> ELSE table
    /\ UNCHANGED <<now, hist>>

\* CREATE TABLE IF NOT EXISTS: the table exists since construction
init_database(o) ==
    /\ CloseOnlyOnSuccess(o)
    /\ ret' = IF o = "ok" THEN Returned("init_database", 0, <<>>) ELSE Raised("init_database", 0)
    /\ UNCHANGED <<table, now, hist>>

\* what the call found in the table (kept with the result, for the record)
Found(t, date, distance, at) ==
    LET old == SelectSeq(t, LAMBDA r : r.date = date)
    IN  [replaced |-> old # <<>>,
         dropped |-> old # <<>> /\ old[1].distance # None /\ distance = None,
         later |-> old # <<>> /\ old[1].created_at < at]

\* add_entry without its except clause
add_entry_uncaught(date, weight, ran, distance, duration, notes, o) ==
    LET \* weight REAL NOT NULL: a NULL weight fails the statement
        oo == IF o = "ok" /\ weight = None THEN "execute_error" ELSE o
    IN  /\ CloseOnlyOnSuccess(oo)
        /\ IF oo = "ok"
           THEN /\ table' = InsertOrReplace(table, Row(date, weight[1], ran, distance, duration, notes, now))
                /\ hist' = (date :> [weight |-> weight[1], ran |-> ran, distance |-> distance,
                                     duration |-> duration, notes |-> notes, at |-> now]) @@ hist
                /\ ret' = Returned("add_entry", Found(table, date, distance, now), TRUE)
           ELSE /\ ret' = Raised("add_entry", <<>>)
                /\ UNCHANGED <<table, hist>>
        /\ UNCHANGED now

add_entry(date, weight, ran, distance, duration, notes, o) ==
    LET \* weight REAL NOT NULL: a NULL weight fails the statement
        oo == IF o = "ok" /\ weight = None THEN "execute_error" ELSE o
    IN  /\ CloseOnlyOnSuccess(oo)
        /\ IF oo = "ok"
           THEN /\ table' = InsertOrReplace(table, Row(date, weight[1], ran, distance, duration, notes, now))
                /\ hist' = (date :> [weight |-> weight[1], ran |-> ran, distance |-> distance,
                                     duration |-> duration, notes |-> notes, at |-> now]) @@ hist
                /\ ret' = Returned("add_entry", Found(table, date, distance, now), TRUE)
           ELSE /\ ret' = Returned("add_entry", <<>>, FALSE)
                /\ UNCHANGED <<table, hist>>
        /\ UNCHANGED now

ReadCall(op, arg, val, o) ==
    /\ CloseOnlyOnSuccess(o)
    /\ ret' = IF o = "ok" THEN Returned(op, arg, val) ELSE Raised(op, arg)
    /\ UNCHANGED <<table, now, hist>>

GetRecentEntries(limit, o) ==
    ReadCall("get_recent_entries", limit, get_recent_entries(table, limit), o)

GetWeightProgress(days, o) ==
    ReadCall("get_weight_progress", days, get_weight_progress(table, Today, days), o)

GetRunningStats(days, o) ==
    ReadCall("get_running_stats", days, get_running_stats(table, Today, days), o)

\* the wall clock moves to the next day
Tick ==
    /\ now < FirstDay + MaxTick
    /\ now' = now + 1
    /\ UNCHANGED <<table, ret, leaked, hist>>

\* the interpreter finalizes the connection objects nobody closed
Finalize ==
    /\ leaked
    /\ leaked' = FALSE
    /\ UNCHANGED <<table, now, ret, hist>>

\* ------------------------------------------------------------- the menu
DefaultLimit == 10
DefaultDays == 30

\* the digits of a one- or two-digit field
FieldValue(f) == IF Len(f) = 1 THEN f[1] - 48 ELSE (f[1] - 48) * 10 + (f[2] - 48)

\* datetime.strptime(s, '%Y-%m-%d'): <<month, day>> of a date the format accepts,
\* None for a text it rejects.  Month and day may have one digit or two.
Strptime(s) ==
    LET hy == {i \in 1..Len(s) : s[i] = Hyphen}
        h2 == CHOOSE i \in hy : i # 5
        mf == SubSeq(s, 6, h2 - 1)
        df == SubSeq(s, h2 + 1, Len(s))
    IN  IF /\ Cardinality(hy) = 2
           /\ 5 \in hy
           /\ \A i \in (1..Len(s)) \ hy : IsDigit(s[i])
           /\ Len(mf) \in 1..2
           /\ Len(df) \in 1..2
           /\ FieldValue(mf) \in 1..12
           /\ FieldValue(df) \in 1..MonthLen(FieldValue(mf))
        THEN Some(<<FieldValue(mf), FieldValue(df)>>)
        ELSE None

\* input(...).strip() or None
NoteOf(typed) == IF typed = <<>> THEN None ELSE Some(typed)

\* a menu that keeps what was typed whatever the answer
RunDetailsAlways(ran, distance, duration) == <<Some(distance), Some(duration)>>

\* distance and duration are asked only after "did you run" was answered yes
RunDetails(ran, distance, duration) ==
    IF ran THEN <<Some(distance), Some(duration)>> ELSE <<None, None>>

\* option 1: today's entry
Option1(weight, ran, distance, duration, typedNotes, o) ==
    LET rd == RunDetails(ran, distance, duration)
    IN  add_entry(Fmt(Today), Some(weight), ran, rd[1], rd[2], NoteOf(typedNotes), o)

\* option 5: the date is asked again until strptime accepts it, and stored as typed
Option5(typedDate, weight, ran, distance, duration, typedNotes, o) ==
    LET rd == RunDetails(ran, distance, duration)
    IN  /\ Strptime(typedDate) # None
        /\ add_entry(typedDate, Some(weight), ran, rd[1], rd[2], NoteOf(typedNotes), o)

Option2 == GetRecentEntries(DefaultLimit, "ok")
Option3 == GetWeightProgress(DefaultDays, "ok")
Option4 == GetRunningStats(DefaultDays, "ok")

\* ---------------------------------------------------------------- inputs
Weights == {Some(700), Some(715)}
Distances == {None, Some(40)}
Durations == {None, Some(30)}
Notes == {None, Some(<<110>>)}
Dates == {Fmt(FirstDay), Fmt(FirstDay + 1)}
Failures == Outcomes \ {"ok"}

\* the store's write path, with a storage that may fail
Next ==
    \/ \E date \in Dates, weight \in Weights, ran \in BOOLEAN, distance \in Distances,
          duration \in Durations, notes \in Notes :
           add_entry(date, weight, ran, distance, duration, notes, "ok")
    \/ \E date \in Dates, weight \in Weights, o \in Failures :
           add_entry(date, weight, TRUE, Some(40), Some(30), None, o)
    \/ \E date \in Dates : add_entry(date, None, FALSE, None, None, None, "ok")
    \/ \E o \in Outcomes : init_database(o)
    \/ Tick
    \/ Finalize

Spec == Init /\ [][Next]_vars

\* the whole store interface within one day on a healthy storage, over dates
\* before, on and after today and one typed without padding
QueryDates == {Fmt(FirstDay - 1), Fmt(FirstDay + 1), FmtShort(FirstDay - 1)}
QueryWeights == {Some(700)}
DaysAsked == {0 - 1} \cup (0..MaxDays)

QueryNext ==
    \/ \E date \in QueryDates, weight \in QueryWeights, ran \in BOOLEAN, distance \in Distances,
          duration \in Durations :
           add_entry(date, weight, ran, distance, duration, None, "ok")
    \/ init_database("ok")
    \/ \E limit \in 0..MaxLimit : GetRecentEntries(limit, "ok")
    \/ \E days \in DaysAsked : GetWeightProgress(days, "ok")
    \/ \E days \in DaysAsked : GetRunningStats(days, "ok")

QuerySpec == Init /\ [][QueryNext]_vars

\* a session at the menu within one day
TypedDates == {Fmt(FirstDay - 1), FmtShort(FirstDay - 1),
               Year2024 \o <<Hyphen>> \o Two(13) \o <<Hyphen>> \o Two(1),
               Year2024 \o <<Hyphen>> \o Two(9) \o <<Hyphen>> \o Two(31)}
TypedWeights == {700}
TypedDistances == {0, 40}
TypedDurations == {30}
TypedNotes == {<<>>, <<110>>}

MenuNext ==
    \/ \E weight \in TypedWeights, ran \in BOOLEAN, distance \in TypedDistances,
          duration \in TypedDurations, notes \in TypedNotes, o \in Outcomes :
           Option1(weight, ran, distance, duration, notes, o)
    \/ Option2
    \/ Option3
    \/ Option4
    \/ \E date \in TypedDates, weight \in TypedWeights, ran \in BOOLEAN,
          distance \in TypedDistances, duration \in TypedDurations, notes \in TypedNotes,
          o \in Outcomes :
           Option5(date, weight, ran, distance, duration, notes, o)
    \/ Finalize

MenuSpec == Init /\ [][MenuNext]_vars

\* ================================================================ claims
Min(a, b) == IF a <= b THEN a ELSE b

RECURSIVE SumSeq(_)
SumSeq(q) == IF q = <<>> THEN 0 ELSE Head(q) + SumSeq(Tail(q))

\* the calendar day a text names, and whether the text is its zero-padded form
CalDay(d) == DayOfYear(Strptime(d)[1][1], Strptime(d)[1][2])
Canonical(d) == Strptime(d) # None /\ d = Fmt(CalDay(d))
AllParse == \A r \in RowsOf(table) : Strptime(r.date) # None
AllCanonical == \A r \in RowsOf(table) : Canonical(r.date)

\* the row written by the call that returned last
LastRow == table[Len(table)]
Added == ret.op = "add_entry" /\ ret.status = "returned" /\ ret.val = TRUE
Read(op) == ret.op = op /\ ret.status = "returned"

\* ----------------------------------------------------------------- C1
\* C1: after any sequence of successful add_entry calls the store holds exactly
\* one record for each date ever added, and its weight, ran, distance, duration
\* and notes are the arguments of the most recent call for that date (a field
\* the later call left out is absent afterwards).
UpsertLaw ==
    /\ DatesOf(table) = DOMAIN hist
    /\ \A d \in DOMAIN hist :
         /\ Cardinality(RowsFor(table, d)) = 1
         /\ \A i \in RowsFor(table, d) :
              /\ table[i].weight = hist[d].weight
              /\ table[i].ran = BoolToSql(hist[d].ran)
              /\ table[i].distance = hist[d].distance
              /\ table[i].duration = hist[d].duration
              /\ table[i].notes = hist[d].notes

\* a date was written again without the distance the replaced record had,
\* while another date is stored too
UpsertWitness ==
    /\ Added
    /\ ret.arg.dropped
    /\ Len(table) = 2
    /\ LastRow.distance = None

\* ----------------------------------------------------------------- C2
\* C2: add_entry never raises; when the storage fails it returns false and the
\* stored records are the same as before the call; when the write succeeds it
\* returns true (and the record is stored).
AddEntryFailsSoftly ==
    [][/\ ret'.op = "add_entry" => ret'.status = "returned" /\ ret'.val \in BOOLEAN
       /\ (ret'.op = "add_entry" /\ ret'.status = "returned" /\ ret'.val = FALSE)
             => table' = table
       /\ (ret'.op = "add_entry" /\ ret'.status = "returned" /\ ret'.val = TRUE
              /\ <<ret, table>>' # <<ret, table>>)
             => table' # <<>> /\ table'[Len(table')].created_at = now]_vars

\* a failed call on a store that holds a record
AddEntryFailedWitness ==
    /\ ret.op = "add_entry"
    /\ ret.status = "returned"
    /\ ret.val = FALSE
    /\ table # <<>>

\* ----------------------------------------------------------------- C3
\* C3 as stated, dates read as calendar dates: for every limit n the result has
\* min(n, count) records, in strictly descending date order, and they are the
\* records with the greatest dates.
RecentByCalendarDate ==
    AllParse =>
      \A n \in 0..MaxLimit :
        LET r == get_recent_entries(table, n)
            got == {r[i][1] : i \in 1..Len(r)}
        IN  /\ Len(r) = Min(n, Len(table))
            /\ \A i \in 1..(Len(r) - 1) : CalDay(r[i][1]) > CalDay(r[i + 1][1])
            /\ \A d \in DatesOf(table) \ got : \A g \in got : CalDay(g) > CalDay(d)

\* C3 amended: the result has min(n, count) records, each a stored record, in
\* strictly descending order of the date text (byte by byte), and they are the
\* records with the greatest date texts, whatever the insertion order; that is
\* the calendar order whenever every stored date is a zero-padded YYYY-MM-DD.
RecentByDateText ==
    \A n \in 0..MaxLimit :
      LET r == get_recent_entries(table, n)
          got == {r[i][1] : i \in 1..Len(r)}
      IN  /\ Len(r) = Min(n, Len(table))
          /\ \A i \in 1..Len(r) : \E x \in RowsOf(table) :
               r[i] = <<x.date, x.weight, x.ran, x.distance, x.duration, x.notes>>
          /\ \A i \in 1..(Len(r) - 1) : StrLess(r[i + 1][1], r[i][1])
          /\ \A d \in DatesOf(table) \ got : \A g \in got : StrLess(d, g)
          /\ AllCanonical =>
               \A i \in 1..(Len(r) - 1) : CalDay(r[i][1]) > CalDay(r[i + 1][1])

\* three records inserted in another order than the one returned, two asked for
RecentWitness ==
    /\ Read("get_recent_entries")
    /\ ret.arg = 2
    /\ Len(table) = 3
    /\ Len(ret.val) = 2
    /\ ret.val[1][1] = table[2].date
    /\ ret.val[2][1] = table[3].date

\* ----------------------------------------------------------------- C4
\* C4: on a store of zero-padded dates, get_weight_progress(days) returns, in
\* ascending date order, the (date, weight) of exactly the records dated in
\* [today - days, today]: the boundary day is in, earlier days are out, and
\* days after today are out.
WeightProgressIsTrailingWindow ==
    AllCanonical =>
      \A days \in 0..MaxDays :
        LET r == get_weight_progress(table, Today, days)
        IN  /\ {r[i] : i \in 1..Len(r)} =
                 {<<x.date, x.weight>> : x \in {y \in RowsOf(table) :
                      CalDay(y.date) \in (Today - days)..Today}}
            /\ \A i \in 1..(Len(r) - 1) : CalDay(r[i][1]) < CalDay(r[i + 1][1])

\* ----------------------------------------------------------------- C5
\* C5: get_running_stats(days) is computed over the records get_weight_progress(days)
\* returns: total_days is their number, run_days the number of them with ran = 1
\* (at most total_days), total_distance the sum of distance over those; with no
\* running day in the window run_days, total_distance and both averages are 0.
DistanceOrZero(x) == IF x.distance = None THEN 0 ELSE x.distance[1]
DurationOrZero(x) == IF x.duration = None THEN 0 ELSE x.duration[1]

StatsOverWindow ==
    \A days \in DaysAsked :
      LET s == get_running_stats(table, Today, days)
          wp == get_weight_progress(table, Today, days)
          dates == {wp[i][1] : i \in 1..Len(wp)}
          runs == SelectSeq(table, LAMBDA x : x.date \in dates /\ x.ran = 1)
      IN  /\ s.total_days = Len(wp)
          /\ s.run_days = Len(runs)
          /\ s.run_days <= s.total_days
          /\ s.total_distance = SumSeq([i \in 1..Len(runs) |-> DistanceOrZero(runs[i])])
          /\ s.run_days = 0 =>
               /\ s.total_distance = 0
               /\ s.avg_distance = Zero
               /\ s.avg_duration = Zero

\* a window with a running day and a rest day that has a distance, and a record
\* outside the window
StatsWitness ==
    /\ Read("get_running_stats")
    /\ ret.val = get_running_stats(table, Today, ret.arg)
    /\ ret.val.run_days = 1
    /\ ret.val.total_days = 2
    /\ Len(table) = 3
    /\ ret.val.total_distance > 0
    /\ \E x \in RowsOf(table) : x.ran = 0 /\ x.distance # None

\* ----------------------------------------------------------------- C6
\* C6 as stated: with run_days > 0 the averages are means over the running days
\* of the window: avg_distance * run_days = total_distance and
\* avg_duration * run_days = the sum of duration over the running days.
MeansOverRunDays ==
    \A days \in DaysAsked :
      LET s == get_running_stats(table, Today, days)
          wp == get_weight_progress(table, Today, days)
          dates == {wp[i][1] : i \in 1..Len(wp)}
          runs == SelectSeq(table, LAMBDA x : x.date \in dates /\ x.ran = 1)
      IN  s.run_days > 0 =>
            /\ s.avg_distance.num * s.run_days = s.total_distance * s.avg_distance.den
            /\ s.avg_duration.num * s.run_days =
                 s.avg_duration.den * SumSeq([i \in 1..Len(runs) |-> DurationOrZero(runs[i])])

\* C6 amended: each average is the mean over the running days of the window that
\* have the value: avg_distance * (running days with a distance) = total_distance
\* and avg_duration * (running days with a duration) = the sum of duration; a
\* running day without the value is left out of the mean, not counted as 0.
MeansOverRunDaysWithValue ==
    \A days \in DaysAsked :
      LET s == get_running_stats(table, Today, days)
          wp == get_weight_progress(table, Today, days)
          dates == {wp[i][1] : i \in 1..Len(wp)}
          runs == SelectSeq(table, LAMBDA x : x.date \in dates /\ x.ran = 1)
          nDistance == Len(SelectSeq(runs, LAMBDA x : x.distance # None))
          nDuration == Len(SelectSeq(runs, LAMBDA x : x.duration # None))
      IN  s.run_days > 0 =>
            /\ s.avg_distance.num * nDistance = s.total_distance * s.avg_distance.den
            /\ s.avg_duration.num * nDuration =
                 s.avg_duration.den * SumSeq([i \in 1..Len(runs) |-> DurationOrZero(runs[i])])

\* two running days in the window, one of them without a distance
MeansWitness ==
    /\ Read("get_running_stats")
    /\ ret.val = get_running_stats(table, Today, ret.arg)
    /\ ret.val.run_days = 2
    /\ ret.val.avg_distance.den = 1
    /\ ret.val.total_distance = 40

\* ----------------------------------------------------------------- C7
\* C7: only a successful add_entry changes the stored records; init_database and
\* the three reads leave every record as it is, and no step removes a date.
OnlyAddEntryWrites ==
    [][/\ table' # table => ret'.op = "add_entry" /\ ret'.val = TRUE
       /\ ret'.op \in {"init_database", "get_recent_entries", "get_weight_progress",
                       "get_running_stats"} => table' = table
       /\ DatesOf(table) \subseteq DatesOf(table')]_vars

\* init_database was called again on a store that holds records
ReinitWitness ==
    /\ Read("init_database")
    /\ Len(table) >= 2

\* ----------------------------------------------------------------- C8
\* C8 as stated: created_at is set at the first insertion of a date and no later
\* add_entry for that date changes it.
CreatedAtKept ==
    [][\A i \in 1..Len(table) : \A j \in 1..Len(table') :
         table[i].date = table'[j].date => table'[j].created_at = table[i].created_at]_vars

\* C8 amended: created_at is the time of the most recent successful add_entry
\* for the date: the replace deletes the old row and inserts a new one, so the
\* column default is taken again on every overwrite.
CreatedAtIsLastWrite ==
    \A i \in 1..Len(table) :
      /\ table[i].date \in DOMAIN hist
      /\ table[i].created_at = hist[table[i].date].at

\* a date written again on a later day
CreatedAtWitness ==
    /\ Added
    /\ ret.arg.later
    /\ LastRow.created_at = now
    /\ now > FirstDay

\* ----------------------------------------------------------------- C9
\* C9: no connection opened by a finished operation is still open, on the
\* storage-error path too.
NoConnectionLeftOpen == leaked = FALSE

\* ---------------------------------------------------------------- C10
\* C10: through the menu alone every record has distance and duration both
\* present when ran is 1 and both absent when ran is 0, also after a date was
\* entered again.
RunDetailsMatchRan ==
    \A r \in RowsOf(table) :
      /\ r.ran = 1 => r.distance # None /\ r.duration # None
      /\ r.ran = 0 => r.distance = None /\ r.duration = None

\* a day entered as a running day was entered again as a rest day
ReenteredWitness ==
    /\ Added
    /\ ret.arg.dropped
    /\ LastRow.ran = 0
    /\ LastRow.distance = None
    /\ LastRow.duration = None

====
